---- MODULE Spec2Model ----
(***************************************************************************)
(* The access-token broker and request executor of wechat-corp-service:    *)
(* class AccessToken and class API (request, getSuiteAccessToken,          *)
(* ensureSuiteAccessToken, setSuiteTicket) of src/unnamed/part_000, the    *)
(* mixed-in endpoints of src/lib/api_service.js (getPreAuthCode,           *)
(* getCorpAccessToken, ensureCorpAccessToken, setCorpAccessToken,          *)
(* _getCorpAccessToken) and getDepartments of src/unnamed/part_000.        *)
(*                                                                         *)
(* Every async function is a frame on the call stack of the logical task   *)
(* that runs it.  A call runs the callee synchronously up to its first     *)
(* await (variable running names the task that holds the JavaScript        *)
(* thread); every await and every return of an async function hands the    *)
(* thread back, so other tasks may run before the continuation.            *)
(***************************************************************************)
EXTENDS Integers, Sequences, FiniteSets, TLC

\* ------------------------------------------------------------------ bounds
MaxTicks == 2          \* clock steps of one behaviour
MaxOps == 2            \* asynchronous API calls the host starts in one behaviour
StartTime == 100000    \* Date.now() at construction, in ms
TickMs == 1000         \* ms added by one clock step
MaxWrites == 1         \* setCorpAccessToken calls of one behaviour
MaxTenantWrites == 3   \* setCorpAccessToken calls of one behaviour of the cache alone

\* ------------------------------------------------------- program constants
DefaultRetry == 3      \* part_000:352
SafetyMargin == 10     \* part_000:263
MsPerSec == 1000       \* part_000:263
StatusLow == 200       \* part_000:371
StatusHigh == 204      \* part_000:371
ErrInvalidCredential == 40001    \* part_000:395
ErrTokenExpired == 42001         \* part_000:395

\* --------------------------------------------------------- JavaScript values
JUndefined == [t |-> "undefined"]
JNull == [t |-> "null"]
JNum(n) == [t |-> "number", n |-> n]
JStr(s) == [t |-> "string", s |-> s]

\* The credential string of a token; Undef is the property read off an object
\* that does not have it.
Undef == "undefined"
\* NaN, the result of arithmetic on undefined (every real instant is > 0).
NaN == -1

\* !!v of a value
JsTruthy(v) == v \notin {JUndefined, JNull, JStr(""), JNum(0)}

\* !!x of a credential
Truthy(s) == s # "" /\ s # Undef

Tasks == {"t1", "t2"}
SeqTasks == {"t1"}
None == "none"

\* ----------------------------------------------------------------- tokens
\* AccessToken without the safety margin
AccessToken_NoMargin(accessToken, expireTime, t) ==
  [accessToken |-> accessToken,
   expireTime |-> IF expireTime = NaN THEN NaN ELSE t + expireTime * MsPerSec,
   typed |-> TRUE]

\* new AccessToken(accessToken, expireTime) evaluated when Date.now() = t
AccessToken(accessToken, expireTime, t) ==
  [accessToken |-> accessToken,
   expireTime |-> IF expireTime = NaN THEN NaN
                  ELSE t + (expireTime - SafetyMargin) * MsPerSec,
   typed |-> TRUE]

\* isValid with the expiry instant itself still valid
isValid_AtExpiry(token, t) ==
  Truthy(token.accessToken) /\ token.expireTime # NaN /\ t <= token.expireTime

\* token.isValid() evaluated when Date.now() = t
isValid(token, t) ==
  Truthy(token.accessToken) /\ token.expireTime # NaN /\ t < token.expireTime

\* The TokenStore hooks of the constructor.  "default" keeps the token object
\* in this.store; "json" is the documented file store, which hands back what
\* JSON.parse(JSON.stringify(token)) gives: a plain record without isValid,
\* without a property that was undefined, and with null for NaN.
JsonRoundTrip(token) ==
  IF token = JNull THEN JNull
  ELSE [accessToken |-> token.accessToken,
        expireTime |-> IF token.expireTime = NaN THEN 0 ELSE token.expireTime,
        typed |-> FALSE]

\* ------------------------------------------------------------------- URLs
\* A URL is its path under this.prefix and its query, a sequence of
\* <<name, value>> pairs.
Url(ep, query) == [ep |-> ep, query |-> query]

EpSuiteToken == "service/get_suite_token"
EpCorpToken == "service/get_corp_token"
EpPreAuthCode == "service/get_pre_auth_code"
EpDepartments == "department/list"
EpUsers == "user/simplelist"

\* ---------------------------------------------------------------- options
\* An options object: the names of its own keys other than headers, whether it
\* has a headers object, and the names of the headers in it.
Options(keys, hasHeaders, headers, data) ==
  [keys |-> keys, hasHeaders |-> hasHeaders, headers |-> headers, data |-> data]

NoOptions == Options({}, FALSE, {}, JUndefined)

\* util.postJSON(data): a POST of the JSON text of data, with its content type
postJSON(data) ==
  Options({"dataType", "method", "data"}, TRUE, {"Content-Type"}, data)

\* The options of the HTTP call: request's merge of opts over this.defaults.
MergedOptions(dflt, opts) ==
  Options(dflt.keys \cup opts.keys,
          dflt.hasHeaders \/ opts.hasHeaders,
          IF opts.hasHeaders THEN dflt.headers \cup opts.headers ELSE dflt.headers,
          IF "data" \in opts.keys THEN opts.data ELSE dflt.data)

\* this.defaults after the merge: options.headers is the very object
\* this.defaults.headers when the defaults have one, and Object.assign writes
\* the caller's headers into it.
DefaultsAfterMerge(dflt, opts) ==
  IF opts.hasHeaders /\ dflt.hasHeaders
  THEN [dflt EXCEPT !.headers = @ \cup opts.headers]
  ELSE dflt

\* -------------------------------------------------------------- responses
\* What the transport and the codec hand to request: the status, whether the
\* content type holds application/json, whether the body parses, and the
\* members of the parsed object (Undef / NaN for a member it does not have).
Body(kind, errcode, errmsg, sat, at, exp) ==
  [kind |-> kind, errcode |-> errcode, errmsg |-> errmsg,
   suite_access_token |-> sat, access_token |-> at, expires_in |-> exp]

\* The bytes of a body that is not JSON, read as an object: none of the members.
Buffer == Body("buffer", 0, Undef, Undef, Undef, NaN)
\* A body the codec throws on.
Malformed == Body("malformed", 0, Undef, Undef, Undef, NaN)
\* {errcode, errmsg}
ErrorBody(c, msg) == Body("object", c, msg, Undef, Undef, NaN)

Response(status, json, body) == [status |-> status, json |-> json, body |-> body]

ErrMsg(code) ==
  CASE code = ErrInvalidCredential -> "invalid credential"
    [] code = ErrTokenExpired -> "access_token expired"
    [] OTHER -> "invalid corpid"

ErrOther == 40013
ErrorCodes == {ErrInvalidCredential, ErrTokenExpired, ErrOther}

\* Lifetimes the remote service declares, in seconds, and the credentials it
\* issues.
SuiteGrants == {<<"S1", 11>>, <<"S2", 10>>}
CorpGrants == {<<"C1", 11>>, <<"C2", 10>>}

SuccessBodies(ep) ==
  CASE ep = EpSuiteToken ->
         {Body("object", 0, "ok", g[1], Undef, g[2]) : g \in SuiteGrants}
    [] ep = EpCorpToken ->
         {Body("object", 0, "ok", Undef, g[1], g[2]) : g \in CorpGrants}
    [] OTHER -> {Body("object", 0, "ok", Undef, Undef, NaN)}

\* The responses the remote service may give to a call of endpoint ep.
ResponsesFor(ep) ==
  {Response(s, FALSE, Buffer) : s \in {199, 204, 205}}
    \cup {Response(200, TRUE, Malformed)}
    \cup {Response(200, TRUE, ErrorBody(c, ErrMsg(c))) : c \in ErrorCodes}
    \cup {Response(200, TRUE, b) : b \in SuccessBodies(ep)}

\* ----------------------------------------------------------------- errors
StatusError(status) ==
  [kind |-> "status", status |-> status, code |-> 0,
   name |-> "WeChatAPIError", message |-> "status code"]
ParseError ==
  [kind |-> "parse", status |-> 0, code |-> 0,
   name |-> "WeChatAPIError", message |-> "JSON.parse error"]
ApiError(errmsg, errcode) ==
  [kind |-> "api", status |-> 0, code |-> errcode,
   name |-> "WeChatAPIError", message |-> errmsg]
\* calling a property that is undefined
NotAFunction(what) ==
  [kind |-> "type", status |-> 0, code |-> 0,
   name |-> "TypeError", message |-> what]

\* ------------------------------------------------------------------ state
VARIABLES
  now,              \* Date.now()
  suiteTicket,      \* this.suiteTicket
  store,            \* what the load hook hands back (this.store)
  hooks,            \* the TokenStore hooks given to the constructor
  corpAccessToken,  \* this.corpAccessToken: own keys and their values
  defaults,         \* this.defaults
  tokenFromCustom,  \* this.tokenFromCustom, as request reads it
  stack,            \* per task: the frames of its pending async functions
  ret,              \* per task: what the promise it awaited last settled with
  running,          \* the task that holds the thread, or None
  op,               \* per task: the API call the host made on it
  result,           \* per task: how that call settled
  log,              \* per task: what that call did, in order
  lastWrite,        \* the last setCorpAccessToken call: who made it, its corpId, its key
  hostSets,         \* the setCorpAccessToken calls the host made
  opsStarted, ticks

vars == <<now, suiteTicket, store, hooks, corpAccessToken, defaults,
          tokenFromCustom, stack, ret, running, op, result, log, lastWrite, hostSets,
          opsStarted, ticks>>

\* the instance fields, the frame of an action that touches none of them
fields == <<suiteTicket, store, hooks, corpAccessToken, defaults, tokenFromCustom>>

Pending == [kind |-> "none"]
Resolved(v) == [v |-> v, kind |-> "ok"]
Rejected(e) == [kind |-> "throw", err |-> e]

NoOp == [kind |-> "none"]

\* ------------------------------------------------------------ the scheduler
Top(t) == stack[t][Len(stack[t])]

\* Task t is about to run the code at pc of fn: its innermost frame is there
\* and no other task holds the thread.
At(t, fn, pc) ==
  /\ stack[t] # <<>>
  /\ Top(t).fn = fn
  /\ Top(t).pc = pc
  /\ running \in {None, t}

\* await: the frame moves to f and the thread is released.
Await(t, f) ==
  /\ stack' = [stack EXCEPT ![t] = [@ EXCEPT ![Len(@)] = f]]
  /\ running' = None
  /\ UNCHANGED <<ret, result>>

\* await callee(...): the frame moves to f, and the callee g runs at once, up
\* to its own first await.
Call(t, f, g) ==
  /\ stack' = [stack EXCEPT ![t] = Append([@ EXCEPT ![Len(@)] = f], g)]
  /\ running' = t
  /\ UNCHANGED <<ret, result>>

\* return v: the promise of the innermost frame resolves to v; the caller
\* continues in a later turn.
Return(t, v) ==
  /\ stack' = [stack EXCEPT ![t] = SubSeq(@, 1, Len(@) - 1)]
  /\ ret' = [ret EXCEPT ![t] = v]
  /\ result' = IF Len(stack[t]) = 1 THEN [result EXCEPT ![t] = Resolved(v)] ELSE result
  /\ running' = None

\* throw e: the promise of the innermost frame rejects with e; the caller,
\* which awaits it, is resumed with the rejection in a later turn.
Throw(t, e) ==
  LET n == Len(stack[t]) IN
  /\ stack' = [stack EXCEPT ![t] =
                 IF n = 1 THEN <<>>
                 ELSE [i \in 1..(n - 1) |->
                         IF i = n - 1 THEN [stack[t][i] EXCEPT !.pc = "rejected"]
                         ELSE stack[t][i]]]
  /\ ret' = [ret EXCEPT ![t] = e]
  /\ result' = IF n = 1 THEN [result EXCEPT ![t] = Rejected(e)] ELSE result
  /\ running' = None

\* The continuation of an await whose promise rejected: no function of the
\* program catches, so the awaiting function throws the same error.
await_rejected(t) ==
  /\ stack[t] # <<>>
  /\ Top(t).pc = "rejected"
  /\ running \in {None, t}
  /\ Throw(t, ret[t])
  /\ UNCHANGED <<now, suiteTicket, store, hooks, corpAccessToken, defaults,
                 tokenFromCustom, op, log, lastWrite, hostSets, opsStarted, ticks>>

\* No function of the program is running: the host may call a synchronous
\* method of the instance, and the clock may have moved since the last step.
Quiet == running = None

Logged(t, events) == log' = [log EXCEPT ![t] = @ \o events]

\* ---------------------------------------------------------- the save hook
\* await this.saveToken(token): the store holds token from the call on.
Saved(token) == IF hooks = "json" THEN JsonRoundTrip(token) ELSE token

\* ---------------------------------------------------------------- request
\* request(url, opts, retry) as called: retry defaults to 3, opts to {}.
requestFrame(url, opts, retry) ==
  [opts |-> opts, fn |-> "request", pc |-> "send", url |-> url,
   retry |-> IF retry = JUndefined THEN DefaultRetry ELSE retry.n,
   res |-> JUndefined]

\* StatusOk with 204 taken for a failure
StatusOk_Below204(status) == status >= StatusLow /\ status < StatusHigh

\* the statuses request goes on with
StatusOk(status) == ~(status < StatusLow \/ status > StatusHigh)

\* Retryable without the test of the budget
Retryable_AnyBudget(code, retry, fromCustom) ==
  /\ code = ErrInvalidCredential \/ code = ErrTokenExpired
  /\ ~fromCustom

\* the guard of the refresh-and-retry branch
Retryable(code, retry, fromCustom) ==
  /\ code = ErrInvalidCredential \/ code = ErrTokenExpired
  /\ retry > 0
  /\ ~fromCustom

\* The options are merged and the HTTP call is issued; the function awaits
\* the response.
request_send(t) ==
  /\ At(t, "request", "send")
  /\ LET f == Top(t) IN
       /\ defaults' = DefaultsAfterMerge(defaults, f.opts)
       /\ Logged(t, <<[e |-> "http", url |-> f.url, retry |-> f.retry,
                       options |-> MergedOptions(defaults, f.opts)]>>)
       /\ Await(t, [f EXCEPT !.pc = "wait"])
  /\ UNCHANGED <<now, suiteTicket, store, hooks, corpAccessToken,
                 tokenFromCustom, op, lastWrite, hostSets, opsStarted, ticks>>

\* The response arrives: its status is checked, and for an accepted status
\* the function awaits the body (await httpx.read(res)).
request_response(t) ==
  /\ At(t, "request", "wait")
  /\ \E r \in ResponsesFor(Top(t).url.ep) :
       /\ Logged(t, <<[e |-> "resp", r |-> r]>>)
       /\ IF ~StatusOk(r.status)
          THEN Throw(t, StatusError(r.status))
          ELSE Await(t, [Top(t) EXCEPT !.pc = "read", !.res = r])
  /\ UNCHANGED <<now, fields, op, lastWrite, hostSets, opsStarted, ticks>>

\* The body has arrived: the parse, the errcode check and, for a rejected
\* credential, the erasure of the stored suite token.
request_read(t) ==
  /\ At(t, "request", "read")
  /\ LET f == Top(t)
         r == f.res
         data == r.body
     IN
       IF ~r.json THEN
         /\ Return(t, Buffer)
         /\ UNCHANGED <<store, log>>
       ELSE IF data.kind = "malformed" THEN
         /\ Throw(t, ParseError)
         /\ UNCHANGED <<store, log>>
       ELSE IF data.errcode # 0 THEN
         IF Retryable(data.errcode, f.retry, tokenFromCustom) THEN
           /\ store' = Saved(JNull)
           /\ Logged(t, <<[token |-> JNull, at |-> now, e |-> "save"]>>)
           /\ Await(t, [f EXCEPT !.pc = "erased"])
         ELSE
           /\ Throw(t, ApiError(data.errmsg, data.errcode))
           /\ UNCHANGED <<store, log>>
       ELSE
         /\ Return(t, data)
         /\ UNCHANGED <<store, log>>
  /\ UNCHANGED <<now, suiteTicket, hooks, corpAccessToken, defaults,
                 tokenFromCustom, op, lastWrite, hostSets, opsStarted, ticks>>

\* The methods of API.prototype: those of the class and those mixed in.
Methods ==
  {"setOpts", "request", "getSuiteAccessToken", "ensureSuiteAccessToken",
   "generateAuthUrl", "setSuiteTicket",
   "getPreAuthCode", "setSessionInfo", "getPermanentCode", "getAuthInfo",
   "getAgent", "setAgent", "getCorpAccessToken", "ensureCorpAccessToken",
   "setCorpAccessToken", "_getCorpAccessToken",
   "getDepartments", "getDepartmentUsers", "getDepartmentUsersDetail", "send"}

\* After the erasure: let token = await this.getAccessToken().  No method of
\* that name exists, so the call throws a TypeError and the request rejects
\* with it; the URL rewrite and the recursive call are never reached.
request_retry(t) ==
  /\ At(t, "request", "erased")
  /\ "getAccessToken" \notin Methods
  /\ Throw(t, NotAFunction("this.getAccessToken is not a function"))
  /\ UNCHANGED <<now, fields, op, log, lastWrite, hostSets, opsStarted, ticks>>

\* ------------------------------------------------------ the suite token
SuiteId == "suite_id"
SuiteSecret == "suite_secret"

\* getSuiteAccessToken: the POST of the suite identity to get_suite_token
getSuiteAccessToken_fetch(t) ==
  /\ At(t, "getSuiteAccessToken", "entry")
  /\ LET params == [suite_id |-> SuiteId, suite_secret |-> SuiteSecret,
                    suite_ticket |-> suiteTicket]
     IN Call(t, [Top(t) EXCEPT !.pc = "data"],
             requestFrame(Url(EpSuiteToken, <<>>), postJSON(params), JUndefined))
  /\ UNCHANGED <<now, fields, op, log, lastWrite, hostSets, opsStarted, ticks>>

\* getSuiteAccessToken: the token is built from the response and handed to
\* the save hook.
getSuiteAccessToken_save(t) ==
  /\ At(t, "getSuiteAccessToken", "data")
  /\ LET data == ret[t]
         token == AccessToken(data.suite_access_token, data.expires_in, now)
     IN /\ store' = Saved(token)
        /\ Logged(t, <<[token |-> token, at |-> now, e |-> "save"]>>)
        /\ Await(t, [Top(t) EXCEPT !.pc = "saved", !.token = token])
  /\ UNCHANGED <<now, suiteTicket, hooks, corpAccessToken, defaults,
                 tokenFromCustom, op, lastWrite, hostSets, opsStarted, ticks>>

getSuiteAccessToken_return(t) ==
  /\ At(t, "getSuiteAccessToken", "saved")
  /\ Return(t, Top(t).token)
  /\ UNCHANGED <<now, fields, op, log, lastWrite, hostSets, opsStarted, ticks>>

\* UsableSuiteToken with the validity test lost: every call fetches.
UsableSuiteToken_AlwaysFetch(token, t) == JNull

\* What ensureSuiteAccessToken makes of the loaded token: the token to return,
\* or JNull when a fetch is needed.
UsableSuiteToken(token, t) ==
  IF token = JNull THEN JNull
  ELSE IF token.typed THEN (IF isValid(token, t) THEN token ELSE JNull)
  ELSE LET accessToken == AccessToken(token.accessToken, token.expireTime, t)
       IN IF isValid(accessToken, t) THEN accessToken ELSE JNull

\* ensureSuiteAccessToken: the load hook is called.
ensureSuiteAccessToken_load(t) ==
  /\ At(t, "ensureSuiteAccessToken", "entry")
  /\ Logged(t, <<[token |-> store, at |-> now, e |-> "load"]>>)
  /\ Await(t, [Top(t) EXCEPT !.pc = "loaded", !.token = store])
  /\ UNCHANGED <<now, fields, op, lastWrite, hostSets, opsStarted, ticks>>

\* ensureSuiteAccessToken: a valid loaded token is returned, otherwise the
\* remote fetch starts.
ensureSuiteAccessToken_check(t) ==
  /\ At(t, "ensureSuiteAccessToken", "loaded")
  /\ LET usable == UsableSuiteToken(Top(t).token, now) IN
       IF usable # JNull
       THEN Return(t, usable)
       ELSE Call(t, [Top(t) EXCEPT !.pc = "fetched"],
                 [token |-> JNull, fn |-> "getSuiteAccessToken", pc |-> "entry"])
  /\ UNCHANGED <<now, fields, op, log, lastWrite, hostSets, opsStarted, ticks>>

ensureSuiteAccessToken_return(t) ==
  /\ At(t, "ensureSuiteAccessToken", "fetched")
  /\ Return(t, ret[t])
  /\ UNCHANGED <<now, fields, op, log, lastWrite, hostSets, opsStarted, ticks>>

\* ------------------------------------------------------- the corp tokens
Digits == <<"0", "1", "2", "3", "4", "5", "6", "7", "8", "9">>

RECURSIVE NumStr(_)
\* the decimal digits of a natural number
NumStr(n) == IF n < 10 THEN Digits[n + 1] ELSE NumStr(n \div 10) \o Digits[(n % 10) + 1]

\* v + '' : the string form of a value used as a property name
ToStr(v) ==
  IF "t" \notin DOMAIN v THEN "[object Object]"
  ELSE CASE v.t = "string" -> v.s
         [] v.t = "number" -> NumStr(v.n)
         [] v.t = "null" -> "null"
         [] OTHER -> "undefined"

\* The tenant identifiers the host uses.
CorpIds == {JStr("corpA"), JNum(7)}

\* The property names this.corpAccessToken may get.
CacheKeys == {ToStr(c) : c \in CorpIds} \cup {"[object Object]"}

\* the value of a property the object does not have
Absent == [t |-> "absent"]

\* an object that is a token
IsToken(v) == "accessToken" \in DOMAIN v

\* setCorpAccessToken writing the token under every key
setCorpAccessToken_EveryKey(cache, corpId, token) ==
  [k \in DOMAIN cache |-> token]

\* setCorpAccessToken(corpId, token): this.corpAccessToken after the call
setCorpAccessToken(cache, corpId, token) ==
  [cache EXCEPT ![ToStr(corpId)] = token]

\* _getCorpAccessToken without the isValid() test: an expired entry is a hit.
_getCorpAccessToken_NoExpiry(cache, corpId, t) ==
  LET token == cache[ToStr(corpId)]
  IN IF IsToken(token) THEN token ELSE JNull

\* _getCorpAccessToken(corpId) evaluated when Date.now() = t
_getCorpAccessToken(cache, corpId, t) ==
  LET token == cache[ToStr(corpId)]
  IN IF IsToken(token) /\ isValid(token, t) THEN token ELSE JNull

\* getCorpAccessToken: the suite token is asked for first.
getCorpAccessToken_suite(t) ==
  /\ At(t, "getCorpAccessToken", "entry")
  /\ Call(t, [Top(t) EXCEPT !.pc = "token"],
          [token |-> JNull, fn |-> "ensureSuiteAccessToken", pc |-> "entry"])
  /\ UNCHANGED <<now, fields, op, log, lastWrite, hostSets, opsStarted, ticks>>

\* getCorpAccessToken: the exchange of the permanent code at get_corp_token,
\* with the suite credential in the query
getCorpAccessToken_fetch(t) ==
  /\ At(t, "getCorpAccessToken", "token")
  /\ LET token == ret[t]
         data == [suite_id |-> SuiteId, auth_corpid |-> Top(t).corpId,
                  permanent_code |-> "permanent_code"]
     IN Call(t, [Top(t) EXCEPT !.pc = "res"],
             requestFrame(Url(EpCorpToken, <<<<"suite_access_token", token.accessToken>>>>),
                          postJSON(data), JUndefined))
  /\ UNCHANGED <<now, fields, op, log, lastWrite, hostSets, opsStarted, ticks>>

getCorpAccessToken_return(t) ==
  /\ At(t, "getCorpAccessToken", "res")
  /\ LET res == ret[t]
     IN Return(t, AccessToken(res.access_token, res.expires_in, now))
  /\ UNCHANGED <<now, fields, op, log, lastWrite, hostSets, opsStarted, ticks>>

\* ensureCorpAccessToken: the cache is looked up; a valid entry is returned,
\* otherwise the exchange starts.
ensureCorpAccessToken_lookup(t) ==
  /\ At(t, "ensureCorpAccessToken", "entry")
  /\ LET token == _getCorpAccessToken(corpAccessToken, Top(t).corpId, now) IN
       IF token # JNull
       THEN Return(t, token)
       ELSE Call(t, [Top(t) EXCEPT !.pc = "newToken"],
                 [fn |-> "getCorpAccessToken", pc |-> "entry",
                  corpId |-> Top(t).corpId])
  /\ Logged(t, <<[at |-> now, e |-> "lookup", sets |-> hostSets,
                  entry |-> corpAccessToken[ToStr(Top(t).corpId)]]>>)
  /\ UNCHANGED <<now, fields, op, lastWrite, hostSets, opsStarted, ticks>>

\* ensureCorpAccessToken: this.setCorpAccessToken(newToken), with the token
\* in the place of corpId and nothing in the place of token; then the return.
ensureCorpAccessToken_store(t) ==
  /\ At(t, "ensureCorpAccessToken", "newToken")
  /\ LET newToken == ret[t] IN
       /\ corpAccessToken' = setCorpAccessToken(corpAccessToken, newToken, JUndefined)
       /\ lastWrite' = [corpId |-> newToken, task |-> t, key |-> ToStr(newToken)]
       /\ Logged(t, <<[e |-> "write", key |-> ToStr(newToken)]>>)
       /\ Return(t, newToken)
  /\ UNCHANGED <<now, suiteTicket, store, hooks, defaults, tokenFromCustom,
                 op, hostSets, opsStarted, ticks>>

ensureCorpAccessTokenFrame(corpId) ==
  [fn |-> "ensureCorpAccessToken", pc |-> "entry", corpId |-> corpId]

\* ------------------------------------------------------------- endpoints
\* getDepartments: the corp token of the tenant is asked for first.
getDepartments_token(t) ==
  /\ At(t, "getDepartments", "entry")
  /\ Call(t, [Top(t) EXCEPT !.pc = "token"], ensureCorpAccessTokenFrame(Top(t).corpId))
  /\ UNCHANGED <<now, fields, op, log, lastWrite, hostSets, opsStarted, ticks>>

getDepartments_request(t) ==
  /\ At(t, "getDepartments", "token")
  /\ Call(t, [Top(t) EXCEPT !.pc = "res"],
          requestFrame(Url(EpDepartments, <<<<"access_token", ret[t].accessToken>>>>),
                       Options({"dataType"}, FALSE, {}, JUndefined), JUndefined))
  /\ UNCHANGED <<now, fields, op, log, lastWrite, hostSets, opsStarted, ticks>>

getDepartments_return(t) ==
  /\ At(t, "getDepartments", "res")
  /\ Return(t, ret[t])
  /\ UNCHANGED <<now, fields, op, log, lastWrite, hostSets, opsStarted, ticks>>

\* getPreAuthCode: the suite token is asked for first.
getPreAuthCode_token(t) ==
  /\ At(t, "getPreAuthCode", "entry")
  /\ Call(t, [Top(t) EXCEPT !.pc = "token"],
          [token |-> JNull, fn |-> "ensureSuiteAccessToken", pc |-> "entry"])
  /\ UNCHANGED <<now, fields, op, log, lastWrite, hostSets, opsStarted, ticks>>

\* getPreAuthCode: the POST of the suite id, and of apps as appid when apps is
\* truthy, with the suite credential in the query
getPreAuthCode_request(t) ==
  /\ At(t, "getPreAuthCode", "token")
  /\ LET data == IF JsTruthy(Top(t).apps)
                 THEN [suite_id |-> SuiteId, appid |-> Top(t).apps]
                 ELSE [suite_id |-> SuiteId]
     IN Call(t, [Top(t) EXCEPT !.pc = "res"],
             requestFrame(Url(EpPreAuthCode, <<<<"suite_access_token", ret[t].accessToken>>>>),
                          postJSON(data), JUndefined))
  /\ UNCHANGED <<now, fields, op, log, lastWrite, hostSets, opsStarted, ticks>>

getPreAuthCode_return(t) ==
  /\ At(t, "getPreAuthCode", "res")
  /\ Return(t, ret[t])
  /\ UNCHANGED <<now, fields, op, log, lastWrite, hostSets, opsStarted, ticks>>

\* ------------------------------------------------------------ the host
\* The host starts an API call on an idle task.
Begin(t, o, frame) ==
  /\ running = None
  /\ stack[t] = <<>>
  /\ opsStarted < MaxOps
  /\ opsStarted' = opsStarted + 1
  /\ op' = [op EXCEPT ![t] = o]
  /\ result' = [result EXCEPT ![t] = Pending]
  /\ log' = [log EXCEPT ![t] = <<>>]
  /\ ret' = [ret EXCEPT ![t] = JUndefined]
  /\ stack' = [stack EXCEPT ![t] = <<frame>>]
  /\ running' = t
  /\ UNCHANGED <<now, fields, lastWrite, hostSets, ticks>>

HostUrls == {Url(EpUsers, <<<<"access_token", "C1">>, <<"department_id", "1">>>>)}
HostOpts == {Options({"dataType"}, FALSE, {}, JUndefined)}
HostRetries == {JUndefined, JNum(0), JNum(1)}

\* api.request(url, opts, retry)
StartRequest(t) ==
  \E url \in HostUrls, opts \in HostOpts, retry \in HostRetries :
    Begin(t, [opts |-> opts, kind |-> "request", url |-> url, retry |-> retry],
          requestFrame(url, opts, retry))

\* api.ensureSuiteAccessToken()
StartEnsureSuiteAccessToken(t) ==
  Begin(t, [kind |-> "ensureSuiteAccessToken"],
        [token |-> JNull, fn |-> "ensureSuiteAccessToken", pc |-> "entry"])

\* api.ensureCorpAccessToken(corpId, permanentCode)
StartEnsureCorpAccessToken(t) ==
  \E corpId \in CorpIds :
    Begin(t, [kind |-> "ensureCorpAccessToken", corpId |-> corpId],
          ensureCorpAccessTokenFrame(corpId))

\* api.getDepartments(corpId, permanentCode)
StartGetDepartments(t) ==
  \E corpId \in CorpIds :
    Begin(t, [kind |-> "getDepartments", corpId |-> corpId],
          [fn |-> "getDepartments", pc |-> "entry", corpId |-> corpId])

\* The values the host passes as apps: nothing, no application, one application.
Apps == {JUndefined, JStr(""), JStr("1")}

\* api.getPreAuthCode(apps)
StartGetPreAuthCode(t) ==
  \E apps \in Apps :
    Begin(t, [kind |-> "getPreAuthCode", apps |-> apps],
          [fn |-> "getPreAuthCode", pc |-> "entry", apps |-> apps])

\* The tokens the host hands to setCorpAccessToken: new api.AccessToken(...)
HostGrants == {<<"C0", 11>>}

\* api.setCorpAccessToken(corpId, token), called by the host
HostSetCorpAccessToken ==
  /\ Quiet
  /\ hostSets < MaxWrites
  /\ hostSets' = hostSets + 1
  /\ \E corpId \in CorpIds, g \in HostGrants :
       LET token == AccessToken(g[1], g[2], now) IN
       /\ corpAccessToken' = setCorpAccessToken(corpAccessToken, corpId, token)
       /\ lastWrite' = [corpId |-> corpId, task |-> None, key |-> ToStr(corpId)]
  /\ UNCHANGED <<now, suiteTicket, store, hooks, defaults, tokenFromCustom,
                 stack, ret, running, op, result, log, opsStarted, ticks>>

SuiteTickets == {"ticket1", "ticket2"}

\* setSuiteTicket that also forgets the stored suite token
setSuiteTicket_ErasesStore ==
  /\ Quiet
  /\ \E newTicket \in SuiteTickets \ {suiteTicket} : suiteTicket' = newTicket
  /\ store' = JNull
  /\ UNCHANGED <<now, hooks, corpAccessToken, defaults, tokenFromCustom,
                 stack, ret, running, op, result, log, lastWrite, hostSets, opsStarted, ticks>>

\* api.setSuiteTicket(newTicket), called by the host
setSuiteTicket ==
  /\ Quiet
  /\ \E newTicket \in SuiteTickets \ {suiteTicket} : suiteTicket' = newTicket
  /\ UNCHANGED <<now, store, hooks, corpAccessToken, defaults, tokenFromCustom,
                 stack, ret, running, op, result, log, lastWrite, hostSets, opsStarted, ticks>>

\* Time passes while no JavaScript runs.
Tick ==
  /\ Quiet
  /\ ticks < MaxTicks
  /\ ticks' = ticks + 1
  /\ now' = now + TickMs
  /\ UNCHANGED <<fields, stack, ret, running, op, result, log, lastWrite, hostSets, opsStarted>>

\* ------------------------------------------------------- the specification
\* The instance after new API(suiteId, suiteSecret, suiteTicket).
Init ==
  /\ now = StartTime
  /\ suiteTicket = "ticket1"
  /\ store = JNull
  /\ hooks = "default"
  /\ corpAccessToken = [k \in CacheKeys |-> Absent]
  /\ defaults = NoOptions
  /\ tokenFromCustom \in BOOLEAN
  /\ stack = [t \in Tasks |-> <<>>]
  /\ ret = [t \in Tasks |-> JUndefined]
  /\ running = None
  /\ op = [t \in Tasks |-> NoOp]
  /\ result = [t \in Tasks |-> Pending]
  /\ log = [t \in Tasks |-> <<>>]
  /\ lastWrite = [corpId |-> JUndefined, task |-> None, key |-> ""]
  /\ hostSets = 0
  /\ opsStarted = 0
  /\ ticks = 0

\* The steps of the executor and of the broker, for the tasks of T.
Steps(T) ==
  \E t \in T :
    \/ request_send(t)
    \/ request_response(t)
    \/ request_read(t)
    \/ request_retry(t)
    \/ await_rejected(t)
    \/ getSuiteAccessToken_fetch(t)
    \/ getSuiteAccessToken_save(t)
    \/ getSuiteAccessToken_return(t)
    \/ ensureSuiteAccessToken_load(t)
    \/ ensureSuiteAccessToken_check(t)
    \/ ensureSuiteAccessToken_return(t)
    \/ getCorpAccessToken_suite(t)
    \/ getCorpAccessToken_fetch(t)
    \/ getCorpAccessToken_return(t)
    \/ ensureCorpAccessToken_lookup(t)
    \/ ensureCorpAccessToken_store(t)

\* The calls of one logical caller, one after another, while time passes.
Next ==
  \/ Tick
  \/ HostSetCorpAccessToken
  \/ StartRequest("t1")
  \/ StartEnsureSuiteAccessToken("t1")
  \/ StartEnsureCorpAccessToken("t1")
  \/ Steps(SeqTasks)

Spec == Init /\ [][Next]_vars

\* Concurrent logical callers: a call may start on one task while the call
\* of the other is suspended at an await.
NextConc ==
  \/ \E t \in Tasks :
       \/ StartRequest(t)
       \/ StartEnsureSuiteAccessToken(t)
       \/ StartEnsureCorpAccessToken(t)
  \/ Steps(Tasks)

SpecConc == Init /\ [][NextConc]_vars

\* ------------------------------------------------------------ observation
\* The call of task t settled: its promise resolved or rejected.
Settled(t) == result[t].kind # "none"

\* The request of task t has taken a response and awaits its body.
Reading(t) == stack[t] # <<>> /\ Top(t).fn = "request" /\ Top(t).pc = "read"

\* A function of task t is about to be resumed with the rejection e of the
\* promise it awaits.
Propagating(t, e) == stack[t] # <<>> /\ Top(t).pc = "rejected" /\ ret[t] = e

\* the events of one kind in the log of task t, in order
Events(t, kind) == SelectSeq(log[t], LAMBDA ev : ev.e = kind)

\* the value of query parameter name in url (Undef when it has none)
QueryValue(url, name) ==
  LET at == {i \in 1..Len(url.query) : url.query[i][1] = name}
  IN IF at = {} THEN Undef
     ELSE url.query[CHOOSE i \in at : \A j \in at : i <= j][2]

\* url has a query parameter name
HasQuery(url, name) == \E i \in 1..Len(url.query) : url.query[i][1] = name

\* the query of url without its parameter name
QueryWithout(url, name) == SelectSeq(url.query, LAMBDA kv : kv[1] # name)

\* The errcode the remote service sent in response r: 0 when it sent none.
SentErrcode(r) ==
  IF r.json /\ r.body.kind = "object" THEN r.body.errcode ELSE 0

\* Response r says that the presented credential is invalid or expired.
RejectsCredential(r) ==
  /\ r.status \in 200..204
  /\ SentErrcode(r) \in {40001, 42001}

\* Task t called request, and the first response rejected the credential
\* while the budget was at least 1 and the broker owned the credential.
FirstAttemptRejected(t) ==
  /\ op[t].kind = "request"
  /\ ~tokenFromCustom
  /\ Len(Events(t, "resp")) >= 1
  /\ RejectsCredential(Events(t, "resp")[1].r)
  /\ Events(t, "http")[1].retry >= 1

\* C1: a request whose first response carries 40001 or 42001, with a budget
\* of at least 1 and a broker-owned credential, does not settle before it has
\* made a second HTTP call; that call goes to the original URL with only the
\* access_token changed, to a credential other than the rejected one; and
\* when the second response carries errcode 0 the request makes no third
\* call and resolves to the parsed body.
C1_RetryResendsWithFreshToken ==
  \A t \in Tasks :
    (FirstAttemptRejected(t) /\ Settled(t)) =>
      LET calls == Events(t, "http")
          resps == Events(t, "resp")
      IN /\ Len(calls) >= 2
         /\ calls[2].url.ep = calls[1].url.ep
         /\ QueryWithout(calls[2].url, "access_token")
              = QueryWithout(calls[1].url, "access_token")
         /\ QueryValue(calls[2].url, "access_token")
              # QueryValue(calls[1].url, "access_token")
         /\ (SentErrcode(resps[2].r) = 0 /\ resps[2].r.status = 200) =>
              /\ Len(calls) = 2
              /\ result[t] = Resolved(resps[2].r.body)

\* C2: a request (broker-owned credential) to which every response carried
\* errcode 40001 has, once settled, made exactly budget + 1 HTTP calls and
\* is rejected with the ApiError of code 40001.
C2_ExhaustsBudgetThenFails ==
  \A t \in Tasks :
    ( /\ op[t].kind = "request"
      /\ ~tokenFromCustom
      /\ Settled(t)
      /\ \A i \in 1..Len(Events(t, "resp")) :
           /\ Events(t, "resp")[i].r.status = 200
           /\ SentErrcode(Events(t, "resp")[i].r) = 40001 ) =>
      /\ Len(Events(t, "http")) = Events(t, "http")[1].retry + 1
      /\ result[t].kind = "throw"
      /\ result[t].err.kind = "api"
      /\ result[t].err.code = 40001

\* Task t called ensureSuiteAccessToken and the load hook handed it a token
\* object whose isValid() was true.
LoadedValidToken(t) ==
  /\ op[t].kind = "ensureSuiteAccessToken"
  /\ Len(log[t]) >= 1
  /\ log[t][1].token # JNull
  /\ log[t][1].token.typed
  /\ log[t][1].token.accessToken \notin {"", Undef}
  /\ log[t][1].at < log[t][1].token.expireTime

\* The token task t loaded is valid now, so it was valid when the call tested it.
StillValid(t) == LoadedValidToken(t) /\ now < log[t][1].token.expireTime

\* This step is the validity test of the ensureSuiteAccessToken of task t, made
\* on a loaded token object for which isValid() is true at this moment.
ChecksValidToken(t) ==
  /\ At(t, "ensureSuiteAccessToken", "loaded")
  /\ stack'[t] # stack[t]
  /\ Top(t).token # JNull
  /\ Top(t).token.typed
  /\ Top(t).token.accessToken \notin {"", Undef}
  /\ now < Top(t).token.expireTime

\* C3: when the load hook returns a token for which isValid() is true,
\* ensureSuiteAccessToken makes no HTTP call and no call of the save hook,
\* and resolves to that very token.
C3_ValidStoredTokenNoFetch ==
  /\ [][\A t \in Tasks :
          ChecksValidToken(t) =>
            /\ stack'[t] = SubSeq(stack[t], 1, Len(stack[t]) - 1)
            /\ ret'[t] = Top(t).token
            /\ Len(stack[t]) = 1 => result'[t] = Resolved(Top(t).token)
            /\ log' = log
            /\ store' = store]_vars
  /\ [](\A t \in Tasks :
          /\ StillValid(t) =>
               /\ Len(log[t]) = 1
               /\ Settled(t) => result[t] = Resolved(log[t][1].token)
          /\ (op[t].kind = "ensureSuiteAccessToken" /\ Settled(t)
                /\ Events(t, "http") = <<>>) =>
               /\ Len(log[t]) = 1
               /\ result[t] = Resolved(log[t][1].token))

\* C3's case: a settled ensureSuiteAccessToken that had loaded a valid token
\* and resolved to it without anything else
C3_Witness ==
  \E t \in Tasks :
    /\ LoadedValidToken(t)
    /\ Len(log[t]) = 1
    /\ result[t] = Resolved(log[t][1].token)

\* Task t called ensureCorpAccessToken; entry is what the cache held under
\* the tenant when the call looked it up.
CorpCall(t) == op[t].kind = "ensureCorpAccessToken" /\ Len(log[t]) >= 1
LookedUp(t) == log[t][1]
\* The cache held a valid token for the tenant at the lookup.
HeldValid(t) ==
  /\ "accessToken" \in DOMAIN LookedUp(t).entry
  /\ LookedUp(t).entry.accessToken \notin {"", Undef}
  /\ LookedUp(t).at < LookedUp(t).entry.expireTime

\* C4: once ensureCorpAccessToken(tenantId) has missed the cache and its
\* exchange has succeeded, the cache holds the fetched token under tenantId
\* (as long as nobody else has written the cache since).
C4_FetchedCorpTokenIsCached ==
  \A t \in Tasks :
    ( /\ CorpCall(t)
      /\ ~HeldValid(t)
      /\ result[t].kind = "ok"
      /\ hostSets = LookedUp(t).sets ) =>
      corpAccessToken[ToStr(op[t].corpId)] = result[t].v

\* C5: ensureCorpAccessToken(tenantId) fetches if and only if the cache
\* holds no valid token for tenantId.  With a valid entry the call makes no
\* HTTP call, resolves to the cached token and leaves the entry in place, so
\* that the next call finds it again; without one it resolves only to a token
\* built from the response of a call to get_corp_token made by itself.
C5_CorpFetchIffNoValidEntry ==
  \A t \in Tasks :
    CorpCall(t) =>
      IF HeldValid(t)
      THEN /\ Len(log[t]) = 1
           /\ result[t] = Resolved(LookedUp(t).entry)
           /\ (hostSets = LookedUp(t).sets) =>
                corpAccessToken[ToStr(op[t].corpId)] = LookedUp(t).entry
      ELSE /\ ~Settled(t) => stack[t][1].pc \in {"newToken", "rejected"}
           /\ result[t].kind = "ok" =>
                LET calls == Events(t, "http")
                    resps == Events(t, "resp")
                IN /\ calls # <<>>
                   /\ Len(calls) = Len(resps)
                   /\ calls[Len(calls)].url.ep = EpCorpToken
                   /\ Cardinality({i \in 1..Len(calls) : calls[i].url.ep = EpCorpToken}) = 1
                   /\ result[t].v.accessToken = resps[Len(resps)].r.body.access_token

\* C5's case: a call that found a valid entry and settled
C5_Witness ==
  \E t \in Tasks : CorpCall(t) /\ HeldValid(t) /\ Settled(t)

\* Task t called ensureSuiteAccessToken, found no usable token in the store
\* and its request to get_suite_token returned a body.
SuiteFetchReturned(t) ==
  /\ op[t].kind = "ensureSuiteAccessToken"
  /\ Len(Events(t, "resp")) = 1
  /\ result[t].kind = "ok"

\* the body the fetch of task t returned
FetchedBody(t) == Events(t, "resp")[1].r.body

\* C6 as claimed: when the store holds no valid suite token and the fetch
\* succeeds, the new token is saved before it is returned and the returned
\* token is valid.
C6_FetchedSuiteTokenIsValid ==
  \A t \in Tasks :
    SuiteFetchReturned(t) =>
      LET saved == log[t][Len(log[t])]
      IN /\ saved.e = "save"
         /\ saved.token = result[t].v
         /\ result[t].v.accessToken \notin {"", Undef}
         /\ saved.at < result[t].v.expireTime

\* C6, amended: when the store holds no valid suite token and the request to
\* get_suite_token returns, the token built from the body is handed to the
\* save hook before it is returned, the default store then holds it, and it
\* is valid exactly when the body carried a suite_access_token and an
\* expires_in greater than the 10 s margin; a call that loads a valid token
\* from the store makes no fetch and returns it.
C6_FetchedSuiteTokenIsSaved ==
  \A t \in Tasks :
    /\ SuiteFetchReturned(t) =>
         LET saved == log[t][Len(log[t])]
             body == FetchedBody(t)
         IN /\ saved.e = "save"
            /\ saved.token = result[t].v
            /\ Len(Events(t, "save")) = 1
            /\ hooks = "default" => store = result[t].v
            /\ result[t].v.accessToken = body.suite_access_token
            /\ ( /\ result[t].v.accessToken \notin {"", Undef}
                 /\ result[t].v.expireTime # NaN
                 /\ saved.at < result[t].v.expireTime )
                 <=> ( /\ body.kind = "object"
                       /\ body.suite_access_token \notin {"", Undef}
                       /\ body.expires_in > 10 )
            /\ body.kind = "object" =>
                 result[t].v.expireTime = saved.at + (body.expires_in - 10) * 1000
    /\ (StillValid(t) /\ Settled(t)) =>
         /\ result[t] = Resolved(log[t][1].token)
         /\ Events(t, "http") = <<>>

\* C6's case: a fetch that returned a token valid at its return
C6_Witness ==
  \E t \in Tasks :
    /\ SuiteFetchReturned(t)
    /\ FetchedBody(t).expires_in > 10
    /\ result[t].v.accessToken = "S1"
    /\ now < result[t].v.expireTime

\* C7: a settled request has reached one of the four terminal states:
\* Success, TransportFailure, ParseFailure or ApiErrorFatal; and from one
\* HTTP call of it to the next the budget has gone down by one.
C7_RequestEndsInATerminalState ==
  \A t \in Tasks :
    op[t].kind = "request" =>
      /\ Settled(t) =>
           \/ result[t].kind = "ok"
           \/ /\ result[t].kind = "throw"
              /\ result[t].err.name = "WeChatAPIError"
              /\ result[t].err.kind \in {"status", "parse", "api"}
      /\ \A i \in 2..Len(Events(t, "http")) :
           Events(t, "http")[i].retry = Events(t, "http")[i - 1].retry - 1

\* The last thing task t did was to receive a response with a nonzero
\* errcode that request must not retry: the code is neither 40001 nor 42001,
\* or the budget of the call was 0, or the credential is externally supplied.
FatalApiResponse(t) ==
  /\ log[t] # <<>>
  /\ LET calls == Events(t, "http")
         resps == Events(t, "resp")
     IN /\ resps # <<>>
        /\ Len(calls) = Len(resps)
        /\ resps[Len(resps)].r.status \in 200..204
        /\ SentErrcode(resps[Len(resps)].r) # 0
        /\ \/ SentErrcode(resps[Len(resps)].r) \notin {40001, 42001}
           \/ calls[Len(calls)].retry = 0
           \/ tokenFromCustom

\* C8: such a response makes the call fail with an ApiError that carries the
\* errcode and the errmsg of the body; the response is the last thing the call
\* did: no HTTP call, no call of the save hook and no write of the corp cache
\* follows it.  Until the call has failed, its request still awaits the body
\* or the error is on its way up the awaiting functions.
C8_FatalApiErrorVerbatim ==
  \A t \in Tasks :
    FatalApiResponse(t) =>
      LET r == Events(t, "resp")[Len(Events(t, "resp"))].r
          err == ApiError(r.body.errmsg, r.body.errcode)
      IN /\ log[t][Len(log[t])] = [e |-> "resp", r |-> r]
         /\ err.name = "WeChatAPIError"
         /\ err.code = r.body.errcode
         /\ err.message = r.body.errmsg
         /\ IF Settled(t) THEN result[t] = Rejected(err) /\ stack[t] = <<>>
            ELSE Reading(t) \/ Propagating(t, err)

\* C8's case: a credential rejection received with a budget of 0
C8_Witness ==
  \E t \in Tasks :
    /\ FatalApiResponse(t)
    /\ Settled(t)
    /\ ~tokenFromCustom
    /\ SentErrcode(Events(t, "resp")[1].r) = 40001
    /\ Events(t, "http")[1].retry = 0

\* C9 as claimed: a response whose status is not in 200 <= status < 204
\* makes request fail with the transport error.
C9_StatusOutside200To203Fails ==
  \A t \in Tasks :
    ( /\ op[t].kind = "request"
      /\ Len(Events(t, "resp")) = 1
      /\ ~(200 <= Events(t, "resp")[1].r.status /\ Events(t, "resp")[1].r.status < 204) ) =>
      /\ result[t].kind = "throw"
      /\ result[t].err.kind = "status"

\* C9, amended: the accepted statuses are 200 <= status <= 204.  A response
\* with any other status makes request fail at once with the transport
\* error, after exactly one HTTP call, with no parse, no retry, no call of
\* the save hook and no write of the corp cache; a response with a status
\* from 200 to 204 is never answered with the transport error.
C9_StatusOutside200To204Fails ==
  \A t \in Tasks :
    (op[t].kind = "request" /\ Len(Events(t, "resp")) = 1) =>
      LET r == Events(t, "resp")[1].r
      IN IF r.status < 200 \/ r.status > 204
         THEN /\ result[t] = Rejected(StatusError(r.status))
              /\ stack[t] = <<>>
              /\ Len(Events(t, "http")) = 1
              /\ Len(log[t]) = 2
              /\ Events(t, "save") = <<>>
              /\ Events(t, "write") = <<>>
         ELSE ~(result[t].kind = "throw" /\ result[t].err.kind = "status")

\* C9's case: a request that received status 205
C9_Witness ==
  \E t \in Tasks :
    /\ op[t].kind = "request"
    /\ Len(Events(t, "resp")) = 1
    /\ Events(t, "resp")[1].r.status = 205
    /\ Settled(t)

\* Both tasks called ensureCorpAccessToken for the same tenant, both missed
\* the cache, and both calls have resolved.
BothMissedAndResolved ==
  /\ \A t \in Tasks : CorpCall(t) /\ ~HeldValid(t) /\ result[t].kind = "ok"
  /\ \A t, u \in Tasks : op[t].corpId = op[u].corpId
  /\ \A t \in Tasks : Len(Events(t, "resp")) >= 1

\* C10: after two concurrent ensureCorpAccessToken calls for one tenant that
\* both missed the cache, each has made its own call to get_corp_token and
\* the cache holds under the tenant the token of the call that wrote last.
C10_LastWriteWins ==
  BothMissedAndResolved =>
    /\ \A t \in Tasks :
         \E i \in 1..Len(Events(t, "http")) : Events(t, "http")[i].url.ep = EpCorpToken
    /\ lastWrite.task \in Tasks
    /\ corpAccessToken[ToStr(op[lastWrite.task].corpId)] = result[lastWrite.task].v

\* ------------------------------------------- the corp cache, tenant by tenant
\* Tenant identifiers, two of them with one string form.
TenantIds == CorpIds \cup {JStr("7")}

\* api.ensureCorpAccessToken(corpId, permanentCode) for any of them
StartEnsureCorpAccessTokenOfTenant(t) ==
  \E corpId \in TenantIds :
    Begin(t, [kind |-> "ensureCorpAccessToken", corpId |-> corpId],
          ensureCorpAccessTokenFrame(corpId))

\* The tokens the host hands to setCorpAccessToken for them
TenantGrants == {<<"C0", 11>>, <<"C3", 12>>}

\* the token records the cache holds
TokenRecords(cache) == {k \in DOMAIN cache : IsToken(cache[k])}

\* api.setCorpAccessToken(corpId, token) for any of them
HostSetCorpAccessTokenOfTenant ==
  /\ Quiet
  /\ hostSets < MaxTenantWrites
  /\ hostSets' = hostSets + 1
  /\ \E corpId \in TenantIds, g \in TenantGrants :
       LET token == AccessToken(g[1], g[2], now) IN
       /\ corpAccessToken' = setCorpAccessToken(corpAccessToken, corpId, token)
       /\ lastWrite' = [corpId |-> corpId, task |-> None, key |-> ToStr(corpId)]
  /\ UNCHANGED <<now, suiteTicket, store, hooks, defaults, tokenFromCustom,
                 stack, ret, running, op, result, log, opsStarted, ticks>>

NextCache ==
  \/ HostSetCorpAccessTokenOfTenant
  \/ StartEnsureCorpAccessTokenOfTenant("t1")
  \/ Steps(SeqTasks)

SpecCache == Init /\ [][NextCache]_vars

\* C11: the cache entry of tenant A changes only in a setCorpAccessToken(B, t)
\* of the host or in the write of an ensureCorpAccessToken(B) with B of the
\* string form of A, so acquiring or storing a token for another tenant leaves
\* it as it was.  A setCorpAccessToken(B, t) puts t where every identifier of
\* the string form of B reads it, and where that string form had a record it
\* replaces the record and adds none, so the cache never holds more token
\* records than there are string forms of tenant identifiers.
C11_OtherTenantsUnchanged ==
  /\ [][\A A \in TenantIds :
          corpAccessToken'[ToStr(A)] # corpAccessToken[ToStr(A)] =>
            \/ /\ hostSets' = hostSets + 1
               /\ ToStr(lastWrite'.corpId) = ToStr(A)
            \/ \E t \in Tasks :
                 /\ At(t, "ensureCorpAccessToken", "newToken")
                 /\ lastWrite'.task = t
                 /\ ToStr(Top(t).corpId) = ToStr(A)]_vars
  /\ [][hostSets' = hostSets + 1 =>
          LET B == lastWrite'.corpId
              written == corpAccessToken'[ToStr(B)]
          IN /\ \E g \in TenantGrants :
                  /\ written.accessToken = g[1]
                  /\ written.expireTime = now + (g[2] - 10) * 1000
             /\ \A A \in TenantIds :
                  ToStr(A) = ToStr(B) =>
                    _getCorpAccessToken(corpAccessToken', A, now) = written
             /\ Cardinality(TokenRecords(corpAccessToken'))
                  = Cardinality(TokenRecords(corpAccessToken))
                      + (IF IsToken(corpAccessToken[ToStr(B)]) THEN 0 ELSE 1)]_vars
  /\ [](Cardinality(TokenRecords(corpAccessToken))
          <= Cardinality({ToStr(c) : c \in TenantIds}))

\* C11's case: the host stored tokens three times, the last one under "7"
\* while another tenant held a token; an ensureCorpAccessToken(7) then found
\* that token, and the other tenant's token is still in the cache.
C11_Witness ==
  \E t \in Tasks :
    /\ CorpCall(t)
    /\ op[t].corpId = JNum(7)
    /\ HeldValid(t)
    /\ result[t] = Resolved(LookedUp(t).entry)
    /\ hostSets = MaxTenantWrites
    /\ LookedUp(t).sets = hostSets
    /\ lastWrite.task = None
    /\ lastWrite.corpId = JStr("7")
    /\ IsToken(corpAccessToken["corpA"])
    /\ corpAccessToken["corpA"].accessToken # corpAccessToken["7"].accessToken

\* ------------------------------------------------- tokens, on their own
\* The credentials and the lifetimes (in seconds) the host builds tokens of.
Credentials == {"", "tok"}
Lifetimes == {9, 10, 11, 12, 7200}

\* token = new api.AccessToken(accessToken, expireTime), made by the host
NewAccessToken(t) ==
  /\ Quiet
  /\ opsStarted < MaxOps
  /\ opsStarted' = opsStarted + 1
  /\ \E accessToken \in Credentials, expireTime \in Lifetimes :
       /\ op' = [op EXCEPT ![t] = [accessToken |-> accessToken, expireTime |-> expireTime,
                                   kind |-> "AccessToken", at |-> now]]
       /\ result' = [result EXCEPT ![t] = Resolved(AccessToken(accessToken, expireTime, now))]
  /\ log' = [log EXCEPT ![t] = <<>>]
  /\ UNCHANGED <<now, fields, stack, ret, running, lastWrite, hostSets, ticks>>

\* token.isValid(), called by the host on the token it built (once per
\* instant of the clock)
token_isValid(t) ==
  /\ Quiet
  /\ op[t].kind = "AccessToken"
  /\ \A i \in 1..Len(log[t]) : log[t][i].at # now
  /\ Logged(t, <<[v |-> isValid(result[t].v, now), at |-> now, e |-> "isValid"]>>)
  /\ UNCHANGED <<now, fields, stack, ret, running, op, result, lastWrite, hostSets,
                 opsStarted, ticks>>

NextToken ==
  \/ Tick
  \/ NewAccessToken("t1")
  \/ token_isValid("t1")

SpecToken == Init /\ [][NextToken]_vars

\* C12: a token built at issuedAt with a lifetime of L seconds answers
\* isValid() with true exactly when its credential is not empty and the time
\* of the call is strictly before issuedAt + (L - 10) seconds; a lifetime of
\* 7200 gives the expiry issuedAt + 7190 s.
C12_ValidUntilLifetimeMinusMargin ==
  \A t \in Tasks :
    op[t].kind = "AccessToken" =>
      /\ \A i \in 1..Len(log[t]) :
           log[t][i].v <=>
             ( /\ op[t].accessToken # ""
               /\ log[t][i].at < op[t].at + (op[t].expireTime - 10) * 1000 )
      /\ op[t].expireTime = 7200 => result[t].v.expireTime = op[t].at + 7190 * 1000

\* C12's case: a token with a credential that was valid at one call of
\* isValid() and no longer valid at a later one
C12_Witness ==
  \E t \in Tasks :
    /\ op[t].kind = "AccessToken"
    /\ op[t].accessToken # ""
    /\ \E i, j \in 1..Len(log[t]) : i < j /\ log[t][i].v /\ ~log[t][j].v

\* ------------------------------------------------------ the suite ticket
\* The steps of the executor and of the suite-token broker alone.
SuiteSteps(T) ==
  \E t \in T :
    \/ request_send(t)
    \/ request_response(t)
    \/ request_read(t)
    \/ request_retry(t)
    \/ await_rejected(t)
    \/ getSuiteAccessToken_fetch(t)
    \/ getSuiteAccessToken_save(t)
    \/ getSuiteAccessToken_return(t)
    \/ ensureSuiteAccessToken_load(t)
    \/ ensureSuiteAccessToken_check(t)
    \/ ensureSuiteAccessToken_return(t)

\* One caller of ensureSuiteAccessToken, while the host pushes new suite
\* tickets and stores corp tokens.
NextTicket ==
  \/ Tick
  \/ setSuiteTicket
  \/ HostSetCorpAccessToken
  \/ StartEnsureSuiteAccessToken("t1")
  \/ SuiteSteps(SeqTasks)

SpecTicket == Init /\ [][NextTicket]_vars

\* C13: a step that changes the suite ticket changes nothing else of the
\* instance or of the calls in flight: the store and every cache entry are as
\* before; every HTTP call to get_suite_token carries the ticket in place when
\* it is sent; and a call that loads a valid token from the store still
\* resolves to it without an HTTP call.
C13_SetSuiteTicketChangesOnlyTicket ==
  /\ [][suiteTicket' # suiteTicket =>
          UNCHANGED <<now, store, hooks, corpAccessToken, defaults, tokenFromCustom,
                      stack, ret, running, op, result, log>>]_vars
  /\ [][\A t \in Tasks :
          ( /\ Len(log'[t]) = Len(log[t]) + 1
            /\ log'[t][Len(log'[t])].e = "http"
            /\ log'[t][Len(log'[t])].url.ep = EpSuiteToken ) =>
            log'[t][Len(log'[t])].options.data.suite_ticket = suiteTicket]_vars
  /\ [](\A t \in Tasks :
          (StillValid(t) /\ Settled(t)) =>
            result[t] = Resolved(log[t][1].token) /\ Len(log[t]) = 1)

\* C13's case: after setSuiteTicket("ticket2") a fetch sent ticket2 and its
\* token was stored.
C13_Witness ==
  \E t \in Tasks :
    /\ suiteTicket = "ticket2"
    /\ op[t].kind = "ensureSuiteAccessToken"
    /\ Events(t, "http") # <<>>
    /\ Events(t, "http")[1].options.data.suite_ticket = "ticket2"
    /\ store # JNull

\* ------------------------------------------------ a serialising TokenStore
\* The instance after new API(suiteId, suiteSecret, suiteTicket, getToken,
\* saveToken) with hooks that keep the token as JSON text.
InitJson ==
  /\ now = StartTime
  /\ suiteTicket = "ticket1"
  /\ store = JNull
  /\ hooks = "json"
  /\ corpAccessToken = [k \in CacheKeys |-> Absent]
  /\ defaults = NoOptions
  /\ tokenFromCustom \in BOOLEAN
  /\ stack = [t \in Tasks |-> <<>>]
  /\ ret = [t \in Tasks |-> JUndefined]
  /\ running = None
  /\ op = [t \in Tasks |-> NoOp]
  /\ result = [t \in Tasks |-> Pending]
  /\ log = [t \in Tasks |-> <<>>]
  /\ lastWrite = [corpId |-> JUndefined, task |-> None, key |-> ""]
  /\ hostSets = 0
  /\ opsStarted = 0
  /\ ticks = 0

NextJson ==
  \/ Tick
  \/ StartEnsureSuiteAccessToken("t1")
  \/ SuiteSteps(SeqTasks)

SpecJson == InitJson /\ [][NextJson]_vars

\* Task t called ensureSuiteAccessToken and the load hook handed it a plain
\* record, not a typed token.
LoadedPlainRecord(t) ==
  /\ op[t].kind = "ensureSuiteAccessToken"
  /\ Len(log[t]) >= 1
  /\ log[t][1].token # JNull
  /\ ~log[t][1].token.typed

\* C14: a plain record loaded from the store is returned only if its stored
\* expiry instant is later than the time of the call; a record whose expiry
\* instant has passed makes the call fetch.
C14_PlainRecordExpiryIsAnInstant ==
  \A t \in Tasks :
    (LoadedPlainRecord(t) /\ Settled(t)) =>
      LET record == log[t][1].token
          at == log[t][1].at
      IN /\ Events(t, "http") = <<>> => at < record.expireTime
         /\ record.expireTime <= at => Events(t, "http") # <<>>

\* ------------------------------------------------------ the retry path
\* Event i of the log of task t is the erasure of the retry path: the save
\* hook called with null.
IsErasure(t, i) == log[t][i].e = "save" /\ log[t][i].token = JNull

\* Event i of the log of task t is an HTTP call to endpoint ep.
IsCallTo(t, i, ep) == log[t][i].e = "http" /\ log[t][i].url.ep = ep

\* C15: a call whose retry path erased the stored suite token goes on in the
\* order erase, re-acquire, resend: after the erasure it calls
\* get_suite_token, and after that it calls the rejected endpoint again.
C15_EraseReacquireResend ==
  \A t \in Tasks :
    Settled(t) =>
      \A i \in 1..Len(log[t]) :
        IsErasure(t, i) =>
          \E j, k \in 1..Len(log[t]) :
            /\ i < j /\ j < k
            /\ IsCallTo(t, j, EpSuiteToken)
            /\ IsCallTo(t, k, log[t][i - 2].url.ep)

\* ------------------------------------------------- a business request
\* The steps of getDepartments.
DepartmentSteps(T) ==
  \E t \in T :
    \/ getDepartments_token(t)
    \/ getDepartments_request(t)
    \/ getDepartments_return(t)

\* One caller of getDepartments, with corp tokens stored by the host.
NextDepartments ==
  \/ HostSetCorpAccessToken
  \/ StartGetDepartments("t1")
  \/ DepartmentSteps(SeqTasks)
  \/ Steps(SeqTasks)

SpecDepartments == Init /\ [][NextDepartments]_vars

\* Task t called getDepartments, presented the corp token it found in the
\* cache, and the response rejected the credential while the budget was at
\* least 1 and the broker owned the credential.
CachedCorpTokenRejected(t) ==
  /\ op[t].kind = "getDepartments"
  /\ ~tokenFromCustom
  /\ Len(log[t]) >= 3
  /\ HeldValid(t)
  /\ IsCallTo(t, 2, EpDepartments)
  /\ log[t][2].retry >= 1
  /\ RejectsCredential(log[t][3].r)

\* C16: once such a call has settled, the rejected corp token is no longer
\* what the cache gives for the tenant, and the call has presented another
\* corp token to the endpoint.
C16_RejectedCorpTokenReplaced ==
  \A t \in Tasks :
    (CachedCorpTokenRejected(t) /\ Settled(t)) =>
      /\ _getCorpAccessToken(corpAccessToken, op[t].corpId, now) # LookedUp(t).entry
      /\ \E k \in 4..Len(log[t]) :
           /\ IsCallTo(t, k, EpDepartments)
           /\ QueryValue(log[t][k].url, "access_token") # LookedUp(t).entry.accessToken

\* ---------------------------------------------------- a suite endpoint
\* The steps of getPreAuthCode.
PreAuthCodeSteps(T) ==
  \E t \in T :
    \/ getPreAuthCode_token(t)
    \/ getPreAuthCode_request(t)
    \/ getPreAuthCode_return(t)

\* One caller of getPreAuthCode, while time passes.
NextPreAuthCode ==
  \/ Tick
  \/ StartGetPreAuthCode("t1")
  \/ PreAuthCodeSteps(SeqTasks)
  \/ SuiteSteps(SeqTasks)

SpecPreAuthCode == Init /\ [][NextPreAuthCode]_vars

\* Event i of the log of task t is an HTTP call that presented a suite
\* credential in the suite_access_token parameter, made with a budget of at
\* least 1, and the next event is a response that rejected the credential.
SuiteCredentialRejected(t, i) ==
  /\ i + 1 <= Len(log[t])
  /\ log[t][i].e = "http"
  /\ HasQuery(log[t][i].url, "suite_access_token")
  /\ log[t][i].retry >= 1
  /\ RejectsCredential(log[t][i + 1].r)

\* C17: when a suite endpoint rejects the presented credential (broker-owned,
\* budget at least 1), the call presents to the same endpoint a credential
\* different from the rejected one before it settles.
C17_SuiteRetryPresentsRefreshedCredential ==
  \A t \in Tasks :
    (Settled(t) /\ ~tokenFromCustom) =>
      \A i \in 1..Len(log[t]) :
        SuiteCredentialRejected(t, i) =>
          \E k \in (i + 2)..Len(log[t]) :
            /\ IsCallTo(t, k, log[t][i].url.ep)
            /\ QueryValue(log[t][k].url, "suite_access_token")
                 # QueryValue(log[t][i].url, "suite_access_token")

\* ------------------------------------------- a suite-token fetch that fails
\* Task t called ensureSuiteAccessToken, found no usable token, and the
\* response to its get_suite_token call was a failure: a status outside
\* 200..204, a body that does not parse, or a nonzero errcode.
SuiteFetchFailed(t) ==
  /\ op[t].kind = "ensureSuiteAccessToken"
  /\ Len(log[t]) >= 3
  /\ IsCallTo(t, 2, EpSuiteToken)
  /\ LET r == log[t][3].r
     IN \/ r.status < 200 \/ r.status > 204
        \/ r.json /\ r.body.kind = "malformed"
        \/ SentErrcode(r) # 0

\* C18: a failed fetch makes ensureSuiteAccessToken fail after one
\* HTTP call, with no call of the save hook and the store as it was.
C18_FailedFetchLeavesStore ==
  \A t \in Tasks :
    (SuiteFetchFailed(t) /\ Settled(t)) =>
      /\ Len(Events(t, "http")) = 1
      /\ result[t].kind = "throw"
      /\ Events(t, "save") = <<>>
      /\ store = log[t][1].token

\* ------------------------------------------------ erasures under concurrency
\* the values of the query parameters of url: the credentials it presents
Presented(url) == {url.query[i][2] : i \in 1..Len(url.query)}

\* This step is the erasure of the retry path of a request of task t.
Erases(t) ==
  /\ At(t, "request", "read")
  /\ Len(log'[t]) = Len(log[t]) + 1
  /\ log'[t][Len(log'[t])].e = "save"

\* C19: the erasure done by the retry path of a request removes from the
\* store only the suite token that request presented and saw rejected: a
\* valid token with another credential, fetched and saved by another caller,
\* is never erased by it.
C19_ErasureRemovesOnlyRejectedToken ==
  [][\A t \in Tasks :
       Erases(t) =>
         \/ store = JNull
         \/ ~isValid(store, now)
         \/ store.accessToken \in Presented(Top(t).url)]_vars

\* ------------------------------------------------------ the default options
\* The defaults the host installs, with and without a headers object, and the
\* options its requests carry, with and without headers of their own.
DefaultOpts ==
  {Options({"timeout"}, TRUE, {"X-Default"}, JUndefined),
   Options({"timeout"}, FALSE, {}, JUndefined)}
CallerOpts ==
  {Options({"dataType"}, TRUE, {"X-Caller"}, JUndefined),
   Options({"dataType"}, FALSE, {}, JUndefined)}

\* api.setOpts(opts), called by the host
setOpts ==
  /\ Quiet
  /\ \E opts \in DefaultOpts \ {defaults} : defaults' = opts
  /\ UNCHANGED <<now, suiteTicket, store, hooks, corpAccessToken, tokenFromCustom,
                 stack, ret, running, op, result, log, lastWrite, hostSets, opsStarted, ticks>>

\* api.request(url, opts, retry) with the caller's options
StartRequestWithOpts(t) ==
  \E url \in HostUrls, opts \in CallerOpts, retry \in HostRetries :
    Begin(t, [opts |-> opts, kind |-> "request", url |-> url, retry |-> retry],
          requestFrame(url, opts, retry))

\* The steps of the executor alone.
RequestSteps(T) ==
  \E t \in T :
    \/ request_send(t)
    \/ request_response(t)
    \/ request_read(t)
    \/ request_retry(t)

\* One caller of request, one call after another, while the host installs
\* defaults.
NextOpts ==
  \/ setOpts
  \/ StartRequestWithOpts("t1")
  \/ RequestSteps(SeqTasks)

SpecOpts == Init /\ [][NextOpts]_vars

\* the header names of the defaults the host installs
InstalledHeaders == UNION {d.headers : d \in DefaultOpts}

\* C20: request leaves the defaults installed by setOpts as they are, and the
\* headers of an HTTP call are those of the defaults and of the options of
\* that call, never the headers of an earlier call.
C20_RequestLeavesDefaults ==
  /\ [][\A t \in Tasks :
          At(t, "request", "send") /\ stack'[t] # stack[t]
            => defaults' = defaults]_vars
  /\ [](\A t \in Tasks : \A i \in 1..Len(log[t]) :
          log[t][i].e = "http"
            => log[t][i].options.headers
                 \subseteq InstalledHeaders \cup op[t].opts.headers)

====
